---- MODULE Spec2Model ----
(***************************************************************************)
(* The documentation / boilerplate generation pipeline of the repository:  *)
(*   RefactorApp_v3.py        stage 1 (retrying completion client,         *)
(*                            per-file run, whole-codebase aggregation)    *)
(*   A2A/App A/RefactorApp.py stage 1 with the handoff to App B            *)
(*   A2A/App B/a2a_server.py  the /generate receiver                       *)
(*   A2A/App B/code_gen.py    stage 2 (generation, artifact extraction,    *)
(*                            packaging)                                   *)
(***************************************************************************)
EXTENDS Integers, Sequences, FiniteSets, TLC

\* ------------------------------------------------------------------ bounds
\* Longest list of Java files a run is given.
MaxUnits == 3

\* --------------------------------------------------------------- constants
\* _generate_docs: max_retries = 3
max_retries == 3
\* _generate_docs: time.sleep(2)
backoff == 2

None == "None"

\* ------------------------------------------------------------ file system
\* A file of the extracted archive.  enc says what its bytes are:
\*   "utf8"  valid UTF-8, len characters (len = 0: the empty file)
\*   "bin"   a byte sequence that is not valid UTF-8 (len >= 1 bytes)
\*   "err"   open() raises OSError (a directory entry that cannot be read)
FileKinds ==
    { [enc |-> "utf8", len |-> 0], [enc |-> "utf8", len |-> 7],
      [enc |-> "bin", len |-> 7],  [enc |-> "err", len |-> 0] }

\* The path the walk gives the j-th file found.
PathOf(j) == <<"A.java", "B.java", "C.java", "D.java", "E.java">>[j]

\* What a read gives: a text (kind "str", text "" when empty), Python's None,
\* or a raised error (kind "raise").
Str(t, n) == [kind |-> "str", text |-> IF n = 0 THEN "" ELSE t, len |-> n]
NoContent == [kind |-> "None", text |-> "", len |-> 0]
Raise(e) == [kind |-> "raise", text |-> e, len |-> 0]

\* open(file_path, 'r', encoding=e).read().  utf-8 rejects the invalid byte
\* sequence; latin-1 and iso-8859-1 map every byte to one character.
Decode(file, encoding) ==
    IF file.enc = "err" THEN Raise("OSError")
    ELSE IF encoding = "utf-8"
         THEN IF file.enc = "utf8" THEN Str("src", file.len)
                                   ELSE Raise("UnicodeDecodeError")
         ELSE Str(IF file.enc = "utf8" THEN "src" ELSE "src-latin1", file.len)

RECURSIVE TryEncodings(_, _)
TryEncodings(file, encodings) ==
    IF encodings = <<>> THEN NoContent
    ELSE LET r == Decode(file, Head(encodings))
         IN IF r = Raise("UnicodeDecodeError")
            THEN TryEncodings(file, Tail(encodings))
            ELSE IF r.kind = "raise" THEN NoContent
            ELSE r

\* RefactorApp_v3.FileProcessor.read_file_content: the text, or None.
\* It never raises: the outer except turns every other error into None.
read_file_content_v3(file) ==
    TryEncodings(file, <<"utf-8", "latin-1", "iso-8859-1">>)

\* Python truth of an Optional[str]: None and "" are false.
Truthy(content) == content.kind = "str" /\ content.len > 0

\* --------------------------------------------------------------- mappings
\* A Python dict: a sequence of <<key, value>> in insertion order.
Keys(d) == { d[n][1] : n \in 1..Len(d) }
IndexOfKey(d, k) == CHOOSE n \in 1..Len(d) : d[n][1] = k
\* d[k] = v: a new key is appended, an existing key keeps its place.
DictSet(d, k, v) ==
    IF k \in Keys(d) THEN [d EXCEPT ![IndexOfKey(d, k)] = <<k, v>>]
    ELSE Append(d, <<k, v>>)
DictGet(d, k) == d[IndexOfKey(d, k)][2]

\* -------------------------------------------------- the completion service
\* What one call of litellm.completion does: it returns a response whose
\* first choice holds a text, or it raises.  "malformed" is an error of the
\* request itself (the credential is rejected): it is raised on every call
\* made with that credential.  "transient" is a timeout or a server error.
DocTexts == {"doc1", "doc2"}
Credentials == {"valid", "invalid"}
CallOutcomes(key) ==
    IF key = "invalid" THEN {"malformed"}
    ELSE DocTexts \cup {"transient"}
IsError(o) == o \in {"malformed", "transient"}

\* The remote stub of one request: what the 1st, 2nd, ... invocation of
\* completion() would do.  One entry more than the client may use, so that a
\* call too many is seen.
Stubs(key) == [1..(max_retries + 1) -> CallOutcomes(key)]

VARIABLES
    api_key,     \* the credential the run was started with
    fs,          \* the extracted files, in walk order: a sequence of FileKinds
    pc,          \* where the run is
    i,           \* process_codebase: the loop's counter (enumerate from 1)
    docs,        \* process_codebase: the mapping being built
    attempt,     \* _generate_docs: the retry loop's counter
    stub,        \* the remote stub of the current (or last) request
    calls,       \* invocations of completion() made for that request
    slept,       \* seconds slept by that request, one entry per sleep
    result,      \* what _generate_docs returned for that request
    progress,    \* UI.show_progress events, in order: <<current, total>>
    payload,     \* what combine_file_contents returned: a sequence of segments
    text,        \* stage 2: a generated text, as its lines and fences
    group,       \* stage 2: the key the text has in the result mapping
    artifacts,   \* what extract_java_files(text) gave
    archive,     \* what save_to_zip wrote
    body,            \* App B: the body of the request posted to /generate
    s_pc,            \* App B: where the handler is
    s_items,         \* generate_code_from_json: the items still to process
    generated_files, \* generate_code_from_json: the mapping being built
    s_calls,         \* completion calls made while handling the request
    s_log,           \* the paths those calls were made for, in order
    reply,           \* App B: the response, [status, error, data]
    documentation,       \* App A: st.session_state.documentation
    processing_complete, \* App A: st.session_state.processing_complete
    a_pc,                \* App A: where the script is
    a_i,                 \* App A: the generation loop's counter
    a_key,               \* App A: the sidebar's API key in the current run
    button_shown,        \* App A: the last run rendered "Generate Documentation"
    sent,                \* App A: the payload last posted to App B
    handoff,             \* App A: what send_to_agent_b last returned
    post,                \* App A: what the POST of the last run came to
    a_extract,           \* App A: what extract_zip gave in the last run
    a_calls,             \* App A: completion calls made in the session
    a_zip_exists,        \* App A: a temporary archive file is on disk
    a_dir_exists,        \* App A: a temporary extraction directory is on disk
    pack_dict,       \* packaging: the mapping given to save_to_zip
    packed,          \* packaging: what save_to_zip wrote
    repacked,        \* packaging: what a second call with the same mapping wrote
    upload,          \* v3 main: the file in the uploader
    button,          \* v3 main: the generation button clicked
    zip_exists,      \* v3 main: the run's temporary archive file is on disk
    dir_exists,      \* v3 main: the run's extraction directory is on disk
    workdir,         \* v3 main: the files in the extraction directory
    extracted_path,  \* v3 main: st.session_state.extracted_path names the directory
    enumerated,      \* v3 main: find_java_files has been called
    reported         \* v3 main: the message the run ended its work with

\* The variables of the per-file run of RefactorApp_v3.
runVars == <<pc, i, docs, attempt, stub, calls, slept, result,
             progress>>
\* The variables of the whole-codebase aggregation.
combineVars == <<payload>>
\* The variables of artifact extraction and packaging.
extractVars == <<text, group, artifacts, archive>>
\* The variables of the /generate receiver and of stage 2's generation.
serverVars == <<body, s_pc, s_items, generated_files, s_calls, s_log, reply>>
\* The variables of App A's script.
appVars == <<documentation, processing_complete, a_pc, a_i, a_key,
             button_shown, sent, handoff, post, a_extract, a_calls,
             a_zip_exists, a_dir_exists>>
\* The variables of packaging a whole mapping.
packVars == <<pack_dict, packed, repacked>>
\* The variables of main of RefactorApp_v3.
mainVars == <<upload, button, zip_exists, dir_exists, workdir,
              extracted_path, enumerated, reported>>

vars == <<api_key, fs, runVars, combineVars, extractVars, serverVars, appVars,
          packVars, mainVars>>

\* ------------------------------------------------ stage 1, RefactorApp_v3
FileLists == UNION { [1..n -> FileKinds] : n \in 0..MaxUnits }

\* No request has been made yet.
NoRequest == "NoRequest"
\* combine_file_contents has not returned yet.
NotCombined == <<[path |-> "", text |-> "NotCombined", len |-> 0]>>
\* extract_java_files / save_to_zip has not been called yet.
NotCalled == [raised |-> "", files |-> <<"NotCalled">>]

\* The parts of the state a specification does not use, at rest.
CombineIdle == payload = NotCombined
ExtractIdle ==
    /\ text = <<>>
    /\ group = <<>>
    /\ artifacts = NotCalled
    /\ archive = NotCalled
NotSent == [api_key |-> "", json_data |-> <<<<"NotSent", "">>>>, complete |-> FALSE]
AppIdle ==
    /\ documentation = <<>>
    /\ processing_complete = FALSE
    /\ a_pc = "idle"
    /\ a_i = 0
    /\ a_key = ""
    /\ button_shown = FALSE
    /\ sent = NotSent
    /\ handoff = "NotCalled"
    /\ post = "NoPost"
    /\ a_extract = "none"
    /\ a_calls = 0
    /\ a_zip_exists = FALSE
    /\ a_dir_exists = FALSE
\* Nothing is in the uploader.
NoUpload == [kind |-> "none", members |-> <<>>]
PackIdle ==
    /\ pack_dict = <<>>
    /\ packed = NotCalled
    /\ repacked = NotCalled
MainIdle ==
    /\ upload = NoUpload
    /\ button = "none"
    /\ zip_exists = FALSE
    /\ dir_exists = FALSE
    /\ workdir = <<>>
    /\ extracted_path = FALSE
    /\ enumerated = FALSE
    /\ reported = "none"
NoReply == [status |-> 0, error |-> "", data |-> <<>>]
NoBody == [kind |-> "none"]
ServerIdle ==
    /\ body = NoBody
    /\ s_pc = "waiting"
    /\ s_items = <<>>
    /\ generated_files = <<>>
    /\ s_calls = 0
    /\ s_log = <<>>
    /\ reply = NoReply
RunIdle ==
    /\ pc = "start"
    /\ i = 0
    /\ docs = <<>>
    /\ attempt = 0
    /\ stub = <<>>
    /\ calls = 0
    /\ slept = <<>>
    /\ result = NoRequest
    /\ progress = <<>>

Init ==
    /\ api_key \in Credentials
    /\ fs \in FileLists
    /\ RunIdle
    /\ CombineIdle
    /\ ExtractIdle
    /\ ServerIdle
    /\ AppIdle
    /\ PackIdle
    /\ MainIdle

\* process_codebase, up to the loop: docs = {}.
StartRun ==
    /\ pc = "start"
    /\ pc' = "loop"
    /\ i' = 1
    /\ docs' = <<>>
    /\ UNCHANGED <<api_key, fs, attempt, stub, calls, slept, result, progress>>
    /\ UNCHANGED <<combineVars, extractVars, serverVars, appVars, packVars, mainVars>>

\* One pass of the for loop up to the call of gen_func: the progress event,
\* the read, and the test of the content.  gen_func builds the prompt and
\* enters _generate_docs.
NextFile ==
    /\ pc = "loop"
    /\ i <= Len(fs)
    /\ progress' = Append(progress, <<i, Len(fs)>>)
    /\ IF Truthy(read_file_content_v3(fs[i]))
       THEN /\ pc' = "generate"
            /\ attempt' = 0
            /\ stub' \in Stubs(api_key)
            /\ calls' = 0
            /\ slept' = <<>>
            /\ result' = NoRequest
            /\ i' = i
       ELSE /\ i' = i + 1
            /\ UNCHANGED <<pc, attempt, stub, calls, slept, result>>
    /\ UNCHANGED <<api_key, fs, docs>>
    /\ UNCHANGED <<combineVars, extractVars, serverVars, appVars, packVars, mainVars>>

\* _generate_docs returns r: docs[file] = r, and the loop goes on.
Return(r) ==
    /\ result' = r
    /\ docs' = DictSet(docs, PathOf(i), r)
    /\ i' = i + 1
    /\ pc' = "loop"

\* The try body ends in a return: what the call gave is a response.
ReturnsResponse(o) == ~IsError(o)
\* A retry loop one pass short: range(max_retries - 1).
MorePassesShort(a) == a + 1 < max_retries - 1
\* A retry loop that goes on for as long as the calls fail.
MorePassesUnbounded(a) == a + 1 < max_retries + 1
\* The for loop of _generate_docs has another pass after pass a.
MorePasses(a) == a + 1 < max_retries
\* A test for the last pass that is one off: it is never true inside the loop.
IsFinalAttemptLate(a) == a = max_retries
\* The except branch's test for the last pass.
IsFinalAttempt(a) == a = max_retries - 1

\* One pass of the retry loop of _generate_docs: the call, and what follows it.
Attempt ==
    /\ pc = "generate"
    /\ calls' = calls + 1
    /\ LET o == stub[calls + 1] IN
       IF ReturnsResponse(o)
       THEN \* return response.choices[0].message.content
            /\ Return(o)
            /\ UNCHANGED <<attempt, slept>>
       ELSE \* except Exception: report the final failure, or sleep
            /\ slept' = IF IsFinalAttempt(attempt) THEN slept
                        ELSE Append(slept, backoff)
            /\ IF MorePasses(attempt)
               THEN /\ attempt' = attempt + 1
                    /\ UNCHANGED <<pc, i, docs, result>>
               ELSE \* the loop is exhausted: return None
                    /\ Return(None)
                    /\ UNCHANGED attempt
    /\ UNCHANGED <<api_key, fs, stub, progress>>
    /\ UNCHANGED <<combineVars, extractVars, serverVars, appVars, packVars, mainVars>>

\* process_codebase returns docs.
FinishRun ==
    /\ pc = "loop"
    /\ i > Len(fs)
    /\ pc' = "done"
    /\ UNCHANGED <<api_key, fs, i, docs, attempt, stub, calls, slept, result,
                   progress>>
    /\ UNCHANGED <<combineVars, extractVars, serverVars, appVars, packVars, mainVars>>

Next == StartRun \/ NextFile \/ Attempt \/ FinishRun

Spec == Init /\ [][Next]_vars

\* A run over one file: the completion client at work on one request.  The
\* script runs to its end once started, so every enabled step is taken.
InitOneFile == Init /\ Len(fs) = 1
RetrySpec == InitOneFile /\ [][Next]_vars /\ WF_vars(Next)

\* ------------------------- whole-codebase aggregation, RefactorApp_v3
\* combine_file_contents: max_size = 500000
max_size == 500000

\* Files of the sizes at which the size test decides: a rendering of an
\* n-character content under a 6-character path is n + 22 characters long.
CombineFileKinds ==
    { [enc |-> "utf8", len |-> 0],      [enc |-> "utf8", len |-> 7],
      [enc |-> "utf8", len |-> 249978], [enc |-> "utf8", len |-> 499978],
      [enc |-> "utf8", len |-> 499979], [enc |-> "bin", len |-> 249978],
      [enc |-> "err", len |-> 0] }
CombineFileLists == UNION { [1..n -> CombineFileKinds] : n \in 0..MaxUnits }

\* f"=== File: {file} ===\n{content}\n": one segment of text, with its length.
Render(path, content) ==
    [path |-> path, text |-> content.text,
     len |-> Len("=== File: ") + Len(path) + Len(" ===") + 1 + content.len + 1]
\* The "\n" that join puts between two items.
Newline == [path |-> "", text |-> "\n", len |-> 1]

\* The test that ends the loop: the rendering does not fit any more.
ExceedsLimit(current_size, file_content) ==
    current_size + file_content.len > max_size

\* The for loop of combine_file_contents from file j on.
RECURSIVE CombineLoop(_, _, _, _)
CombineLoop(files, j, combined, current_size) ==
    IF j > Len(files) THEN combined
    ELSE LET content == read_file_content_v3(files[j]) IN
         IF Truthy(content)
         THEN LET file_content == Render(PathOf(j), content) IN
              IF ExceedsLimit(current_size, file_content)
              THEN combined
              ELSE CombineLoop(files, j + 1, Append(combined, file_content),
                               current_size + file_content.len)
         ELSE CombineLoop(files, j + 1, combined, current_size)

\* sep.join(items), as the sequence of its segments.
RECURSIVE Join(_, _)
Join(sep, items) ==
    IF Len(items) <= 1 THEN items
    ELSE <<Head(items), sep>> \o Join(sep, Tail(items))

\* len() of a text given as its segments.
RECURSIVE TextLen(_)
TextLen(segments) ==
    IF segments = <<>> THEN 0 ELSE Head(segments).len + TextLen(Tail(segments))

combine_file_contents(files) == Join(Newline, CombineLoop(files, 1, <<>>, 0))

InitCombine ==
    /\ fs \in CombineFileLists
    /\ api_key \in Credentials
    /\ RunIdle
    /\ CombineIdle
    /\ ExtractIdle
    /\ ServerIdle
    /\ AppIdle
    /\ PackIdle
    /\ MainIdle

\* generate_architecture_docs: combined_code = combine_file_contents(files).
Combine ==
    /\ payload = NotCombined
    /\ payload' = combine_file_contents(fs)
    /\ UNCHANGED <<fs, api_key, runVars, extractVars, serverVars, appVars, packVars, mainVars>>

NextCombine == Combine

CombineSpec == InitCombine /\ [][NextCombine]_vars

\* ------------------------------------------- main of RefactorApp_v3
\* What is in the uploader: nothing, a ZIP archive with its .java members, a
\* file that is no archive at all, an archive one of whose members is damaged
\* (its directory reads, the member's CRC does not match), or an archive that
\* save_uploaded_file cannot write to disk.
UploadKinds ==
    { NoUpload, [kind |-> "notzip", members |-> <<>>] }
    \cup { [kind |-> k, members |-> m] :
             k \in {"zip", "damaged", "unsaved"}, m \in FileLists }
\* show_generation_options: the button clicked in this run, if any.
Buttons == {"none", "basic", "detailed", "arch"}
\* setup_sidebar: the key in the sidebar, possibly empty.
KeyEntries == Credentials \cup {""}

\* What extractall leaves of a damaged member: a file without its content.
DamagedFile == [enc |-> "utf8", len |-> 0]
\* zip_ref.extractall(extract_to): the .java files in the directory after
\* it.  ZipFile() raises for a file that is no archive (and for the None of
\* a failed save) before anything is written; extractall writes member after
\* member and raises at a damaged one, leaving what it wrote.
ExtractAll(u) ==
    CASE u.kind = "zip" -> { u.members }
      [] u.kind = "damaged" ->
           { SubSeq(u.members, 1, k - 1) \o <<DamagedFile>> :
               k \in 1..Len(u.members) } \cup
           (IF u.members = <<>> THEN { <<>> } ELSE {})
      [] OTHER -> { <<>> }
\* extract_zip returns True.
Extracts(u) == u.kind = "zip"

\* The test that opens the body of main.
Gate == upload.kind # "none" /\ api_key # "" /\ button # "none"

\* The retry loop of _generate_docs for one request, from pass a on, z being
\* the sleeps so far: what it returns, the calls made and the sleeps.
RECURSIVE RetryLoop(_, _, _)
RetryLoop(s, a, z) ==
    IF ~(a < max_retries) THEN [result |-> None, calls |-> a, slept |-> z]
    ELSE IF ReturnsResponse(s[a + 1])
         THEN [result |-> s[a + 1], calls |-> a + 1, slept |-> z]
         ELSE RetryLoop(s, a + 1,
                        IF IsFinalAttempt(a) THEN z ELSE Append(z, backoff))

InitMain ==
    /\ api_key \in KeyEntries
    /\ upload \in UploadKinds
    /\ button \in Buttons
    /\ fs = <<>>
    /\ pc = "main"
    /\ i = 0
    /\ docs = <<>>
    /\ attempt = 0
    /\ stub = <<>>
    /\ calls = 0
    /\ slept = <<>>
    /\ result = NoRequest
    /\ progress = <<>>
    /\ zip_exists = FALSE
    /\ dir_exists = FALSE
    /\ workdir = <<>>
    /\ extracted_path = FALSE
    /\ enumerated = FALSE
    /\ reported = "none"
    /\ CombineIdle
    /\ ExtractIdle
    /\ ServerIdle
    /\ AppIdle
    /\ PackIdle

\* main up to extract_zip: the gate; save_uploaded_file writes the temporary
\* archive file (or returns None), mkdtemp makes the directory.
MainEnter ==
    /\ pc = "main"
    /\ IF Gate
       THEN /\ zip_exists' = (upload.kind # "unsaved")
            /\ dir_exists' = TRUE
            /\ pc' = "saved"
       ELSE /\ pc' = "cleanup"
            /\ UNCHANGED <<zip_exists, dir_exists>>
    /\ UNCHANGED <<api_key, fs, i, docs, attempt, stub, calls, slept, result, progress>>
    /\ UNCHANGED <<upload, button, workdir, extracted_path, enumerated, reported>>
    /\ UNCHANGED <<combineVars, extractVars, serverVars, appVars, packVars>>

\* extract_zip: extractall, and in the finally clause os.unlink(zip_path).
\* Only when it returns True does main set st.session_state.extracted_path.
ExtractZip ==
    /\ pc = "saved"
    /\ workdir' \in ExtractAll(upload)
    /\ zip_exists' = FALSE
    /\ extracted_path' = Extracts(upload)
    /\ pc' = IF Extracts(upload) THEN "extracted" ELSE "cleanup"
    /\ UNCHANGED <<api_key, fs, i, docs, attempt, stub, calls, slept, result, progress>>
    /\ UNCHANGED <<upload, button, dir_exists, enumerated, reported>>
    /\ UNCHANGED <<combineVars, extractVars, serverVars, appVars, packVars>>

\* find_java_files(extract_dir), and the branch on the button: process_codebase
\* for the two per-file buttons, generate_architecture_docs for the third.
FindJavaFiles ==
    /\ pc = "extracted"
    /\ enumerated' = TRUE
    /\ fs' = workdir
    /\ pc' = IF workdir = <<>> THEN "cleanup"
             ELSE IF button = "arch" THEN "arch" ELSE "start"
    /\ reported' = IF workdir = <<>> THEN "error: no Java files" ELSE reported
    /\ UNCHANGED <<api_key, i, docs, attempt, stub, calls, slept, result, progress>>
    /\ UNCHANGED <<upload, button, zip_exists, dir_exists, workdir, extracted_path>>
    /\ UNCHANGED <<combineVars, extractVars, serverVars, appVars, packVars>>

\* generate_architecture_docs: the files are combined and one request is made
\* for the whole codebase.
ArchDocs ==
    /\ pc = "arch"
    /\ payload' = combine_file_contents(fs)
    /\ \E s \in Stubs(api_key) :
         /\ stub' = s
         /\ calls' = RetryLoop(s, 0, <<>>).calls
         /\ slept' = RetryLoop(s, 0, <<>>).slept
         /\ result' = RetryLoop(s, 0, <<>>).result
    /\ pc' = "done"
    /\ UNCHANGED <<api_key, fs, i, docs, attempt, progress>>
    /\ UNCHANGED <<extractVars, serverVars, appVars, packVars, mainVars>>

\* The end of main: after process_codebase or generate_architecture_docs has
\* returned, whatever it returned, the balloons and
\* st.success("Documentation generated successfully!"); the views; and
\* AppState.cleanup, which removes the directory that
\* st.session_state.extracted_path names.
MainCleanup ==
    /\ pc \in {"done", "cleanup"}
    /\ pc' = "ended"
    /\ reported' = IF pc = "done" THEN "success" ELSE reported
    /\ dir_exists' = (dir_exists /\ ~extracted_path)
    /\ workdir' = IF extracted_path THEN <<>> ELSE workdir
    /\ UNCHANGED <<api_key, fs, i, docs, attempt, stub, calls, slept, result, progress>>
    /\ UNCHANGED <<upload, button, zip_exists, extracted_path, enumerated>>
    /\ UNCHANGED <<combineVars, extractVars, serverVars, appVars, packVars>>

NextMain ==
    \/ MainEnter \/ ExtractZip \/ FindJavaFiles \/ ArchDocs \/ MainCleanup
    \/ StartRun \/ NextFile \/ Attempt \/ FinishRun

MainSpec == InitMain /\ [][NextMain]_vars

\* ---------------------------- stage 2, App B: extraction and packaging
\* Longest generated text, in lines.
MaxLines == 4

\* A generated text is a sequence of lines.  A fence stands on a line of its
\* own: the opening fence of a Java block, the same with a capital tag, and
\* the bare fence.  The other lines are code or prose.  [fence] stands for
\* the three backquote characters of a Markdown fence.
FenceJava == "[fence]java"
FenceJavaCap == "[fence]Java"
Fence == "[fence]"
ClassBraceLine == "public class Foo {"
ClassLine == "public class Bar"
PlainLine == "int x;"
BlankLine == ""
\* f"Error: {str(e)}", what generate_code_from_json records for a failed call.
ErrorLine == "Error: timed out"
Lines == {FenceJava, FenceJavaCap, Fence, ClassBraceLine, ClassLine,
          PlainLine, BlankLine, ErrorLine}
Texts == UNION { [1..n -> Lines] : n \in 0..MaxLines }

\* line.split(): the words of a line.
Words(line) ==
    CASE line = ClassBraceLine -> <<"public", "class", "Foo", "{">>
      [] line = ClassLine -> <<"public", "class", "Bar">>
      [] line = PlainLine -> <<"int", "x;">>
      [] line = ErrorLine -> <<"Error:", "timed", "out">>
      [] line = FenceJava -> <<"[fence]java">>
      [] line = FenceJavaCap -> <<"[fence]Java">>
      [] line = Fence -> <<"[fence]">>
      [] OTHER -> <<>>

\* The line holds the three backquotes (the pattern's closing part matches).
HasFence(line) == line \in {FenceJava, FenceJavaCap, Fence}
\* The line holds the three backquotes and "java" (the pattern's opening part matches).
OpensBlock(line) == line = FenceJava

Min(S) == CHOOSE n \in S : \A m \in S : n <= m

\* re.findall(r"[fence]java(.*?)[fence]", text, re.DOTALL) from line p on: each match
\* runs from the first opening fence to the first fence after it, and the
\* search goes on behind that fence.  A block is the lines in between.
\* A search that takes a text without an opening fence for one block.
FindBlocksOrWholeText(t, p) ==
    IF { n \in p..Len(t) : OpensBlock(t[n]) } = {}
    THEN <<SubSeq(t, p, Len(t))>>
    ELSE <<>>
RECURSIVE FindBlocks(_, _)
FindBlocks(t, p) ==
    LET opens == { n \in p..Len(t) : OpensBlock(t[n]) } IN
    IF opens = {} THEN <<>>
    ELSE LET o == Min(opens)
             closes == { n \in (o + 1)..Len(t) : HasFence(t[n]) }
         IN IF closes = {} THEN <<>>
            ELSE <<SubSeq(t, o + 1, Min(closes) - 1)>>
                 \o FindBlocks(t, Min(closes) + 1)

\* block.strip(): the block without its leading and trailing blank lines.
RECURSIVE LStrip(_)
LStrip(block) ==
    IF block # <<>> /\ Head(block) = BlankLine THEN LStrip(Tail(block))
    ELSE block
RECURSIVE RStrip(_)
RStrip(block) ==
    IF block # <<>> /\ block[Len(block)] = BlankLine
    THEN RStrip(SubSeq(block, 1, Len(block) - 1))
    ELSE block
Strip(block) == RStrip(LStrip(block))

\* "class" in first_line
ContainsClass(line) == \E n \in 1..Len(Words(line)) : Words(line)[n] = "class"
\* first_line.split()[-1]
LastWord(line) == Words(line)[Len(Words(line))]
\* The name extract_java_files gives a block, files being those found so far.
ClassName(first_line, files) ==
    IF ContainsClass(first_line) THEN LastWord(first_line)
    ELSE "File_" \o ToString(Len(files))

\* The for loop of extract_java_files: an artifact is <<name, code>>.
\* block.strip().splitlines()[0] raises IndexError when nothing is left.
RECURSIVE ExtractLoop(_, _)
ExtractLoop(blocks, files) ==
    IF blocks = <<>> THEN [raised |-> "", files |-> files]
    ELSE LET lines == Strip(Head(blocks)) IN
         IF lines = <<>> THEN [raised |-> "IndexError", files |-> <<>>]
         ELSE ExtractLoop(Tail(blocks),
                          Append(files, <<ClassName(lines[1], files), lines>>))

extract_java_files(t) == ExtractLoop(FindBlocks(t, 1), <<>>)

\* A key of the result mapping, in pieces: the ".java" and the spaces that
\* save_to_zip looks for are pieces of their own.
GroupNames == { <<"Order">>, <<"Order", ".java">>, <<"My", " ", "Order">> }

\* s.replace(old, new) on a name in pieces.
RECURSIVE Replace(_, _, _)
Replace(name, old, new) ==
    IF name = <<>> THEN <<>>
    ELSE (IF Head(name) = old THEN new ELSE <<Head(name)>>)
         \o Replace(Tail(name), old, new)
\* The string the pieces spell.
RECURSIVE Spell(_)
Spell(name) == IF name = <<>> THEN "" ELSE Head(name) \o Spell(Tail(name))

\* An entry name made from the key as it is, nothing stripped or replaced.
EntryNameUncleaned(filename, name) ==
    Spell(filename) \o "_" \o name \o ".java"
\* f"{cleaned_name}_{name}.java"
EntryName(filename, name) ==
    Spell(Replace(Replace(filename, ".java", <<>>), " ", <<"_">>))
    \o "_" \o name \o ".java"

\* The inner loop of save_to_zip: one writestr per artifact.
RECURSIVE WriteEntries(_, _, _)
WriteEntries(filename, java_files, entries) ==
    IF java_files = <<>> THEN entries
    ELSE WriteEntries(filename, Tail(java_files),
                      Append(entries, <<EntryName(filename, Head(java_files)[1]),
                                        Head(java_files)[2]>>))

\* The outer loop of save_to_zip over the mapping's items; an error raised
\* by extract_java_files leaves save_to_zip.
RECURSIVE SaveLoop(_, _)
SaveLoop(file_dict, entries) ==
    IF file_dict = <<>> THEN [raised |-> "", files |-> entries]
    ELSE LET java_files == extract_java_files(Head(file_dict)[2]) IN
         IF java_files.raised # "" THEN [raised |-> java_files.raised, files |-> entries]
         ELSE SaveLoop(Tail(file_dict),
                       WriteEntries(Head(file_dict)[1], java_files.files, entries))

save_to_zip(file_dict) == SaveLoop(file_dict, <<>>)

InitExtract ==
    /\ text \in Texts
    /\ group \in GroupNames
    /\ artifacts = NotCalled
    /\ archive = NotCalled
    /\ api_key = "valid"
    /\ fs = <<>>
    /\ RunIdle
    /\ CombineIdle
    /\ ServerIdle
    /\ AppIdle
    /\ PackIdle
    /\ MainIdle

\* extract_java_files(text)
Extract ==
    /\ artifacts = NotCalled
    /\ artifacts' = extract_java_files(text)
    /\ UNCHANGED <<text, group, archive>>
    /\ UNCHANGED <<api_key, fs, runVars, combineVars, serverVars, appVars, packVars, mainVars>>

\* save_to_zip({group: text})
SaveToZip ==
    /\ archive = NotCalled
    /\ archive' = save_to_zip(<< <<group, text>> >>)
    /\ UNCHANGED <<text, group, artifacts>>
    /\ UNCHANGED <<api_key, fs, runVars, combineVars, serverVars, appVars, packVars, mainVars>>

NextExtract == Extract \/ SaveToZip

ExtractSpec == InitExtract /\ [][NextExtract]_vars

\* ------------------------------- stage 2, App B: packaging a whole mapping
\* Most groups in the mapping given to save_to_zip.
MaxGroups == 2

\* Generated texts of the shapes that matter to packaging: no block, the
\* error text, one block, two blocks, two blocks that each open with a class
\* declaration and its brace, a block of two lines after prose, and a block
\* that is blank.
PackTexts ==
    { <<>>,
      <<ErrorLine>>,
      <<FenceJava, ClassLine, Fence>>,
      <<FenceJava, ClassLine, Fence, FenceJava, PlainLine, Fence>>,
      <<FenceJava, ClassBraceLine, Fence, FenceJava, ClassBraceLine, PlainLine, Fence>>,
      <<PlainLine, FenceJava, PlainLine, PlainLine, Fence>>,
      <<FenceJava, BlankLine, Fence>> }

\* The result mapping of generate_code_from_json: its keys are distinct.
PackMappings ==
    UNION { { d \in [1..n -> GroupNames \X PackTexts] :
                \A a, b \in 1..n : a # b => d[a][1] # d[b][1] } : n \in 0..MaxGroups }

InitPack ==
    /\ pack_dict \in PackMappings
    /\ packed = NotCalled
    /\ repacked = NotCalled
    /\ api_key = "valid"
    /\ fs = <<>>
    /\ RunIdle
    /\ CombineIdle
    /\ ExtractIdle
    /\ ServerIdle
    /\ AppIdle
    /\ MainIdle

\* zip_path = save_to_zip(result)
Pack ==
    /\ packed = NotCalled
    /\ packed' = save_to_zip(pack_dict)
    /\ UNCHANGED <<pack_dict, repacked>>
    /\ UNCHANGED <<api_key, fs, runVars, combineVars, extractVars, serverVars, appVars,
                   mainVars>>

\* The same mapping is packed once more (the button is clicked again).
PackAgain ==
    /\ packed # NotCalled
    /\ repacked = NotCalled
    /\ repacked' = save_to_zip(pack_dict)
    /\ UNCHANGED <<pack_dict, packed>>
    /\ UNCHANGED <<api_key, fs, runVars, combineVars, extractVars, serverVars, appVars,
                   mainVars>>

NextPack == Pack \/ PackAgain

PackSpec == InitPack /\ [][NextPack]_vars

\* ------------------------------------ stage 2, App B: the /generate receiver
\* Most entries in the json_data mapping of a request.
MaxEntries == 2

\* A JSON value of a request field: absent from the object, null, a string,
\* an object (its items in order) or a list.
JAbsent == [t |-> "absent", s |-> "", m |-> <<>>]
JNull == [t |-> "null", s |-> "", m |-> <<>>]
JStr(x) == [t |-> "str", s |-> x, m |-> <<>>]
JObj(items) == [t |-> "obj", s |-> "", m |-> items]
JList(items) == [t |-> "list", s |-> "", m |-> items]

\* A key of json_data: the path of a documented file.
DocPaths ==
    { [dir |-> "src/", stem |-> "Order", suffix |-> ".java"],
      [dir |-> "test/", stem |-> "Order", suffix |-> ".java"],
      [dir |-> "", stem |-> "Item", suffix |-> ".java"] }
\* A value of json_data: a documentation text, or the null that App A's
\* mapping holds for a file whose documentation failed.
DocValues == { JStr("doc1"), JNull }

Range(f) == { f[n] : n \in DOMAIN f }
DocMappings ==
    UNION { { m \in [1..n -> DocPaths \X DocValues] :
                \A a, b \in 1..n : a # b => m[a][1] # m[b][1] } : n \in 0..MaxEntries }

ApiKeyValues == { JAbsent, JNull, JStr(""), JStr("valid"), JStr("invalid") }
JsonDataValues ==
    { JAbsent, JNull, JStr(""), JStr("text"), JList(<<>>), JList(<<"x">>) }
    \cup { JObj(m) : m \in DocMappings }

\* What request.get_json() is given: a JSON object with the two fields, a
\* JSON null, a JSON list, or a body that is not JSON.
Bodies ==
    { [kind |-> "object", api_key |-> a, json_data |-> d] :
        a \in ApiKeyValues, d \in JsonDataValues }
    \cup { [kind |-> k, api_key |-> JAbsent, json_data |-> JAbsent] :
             k \in {"null", "list", "notjson"} }

\* Python's "not x" for the value data.get(...) gives.
Falsy(v) ==
    \/ v.t \in {"absent", "null"}
    \/ v.t = "str" /\ v.s = ""
    \/ v.t \in {"obj", "list"} /\ v.m = <<>>

\* A test that rejects only when both fields are missing.
RejectsBothMissing(key, file_json) == Falsy(key) /\ Falsy(file_json)
\* if not api_key or not file_json
Rejects(key, file_json) == Falsy(key) \/ Falsy(file_json)

\* Path(file_path).stem
Stem(path) == path.stem

\* The texts the model can answer a stage 2 prompt with.
GeneratedTexts ==
    { <<FenceJava, ClassLine, Fence>>, <<PlainLine>> }
\* The credential the request carries, as the service sees it.
KeyOf(v) == IF v.t = "str" /\ v.s = "valid" THEN "valid" ELSE "invalid"
\* What one call of completion() does in stage 2: a response with a text,
\* or an error raised.
Stage2Outcomes(key) ==
    IF key = "invalid" THEN { [err |-> "malformed", text |-> <<>>] }
    ELSE { [err |-> "", text |-> t] : t \in GeneratedTexts }
         \cup { [err |-> "transient", text |-> <<>>] }

Reply(status, error, data) == [status |-> status, error |-> error, data |-> data]

InitServer ==
    /\ body \in Bodies
    /\ s_pc = "waiting"
    /\ s_items = <<>>
    /\ generated_files = <<>>
    /\ s_calls = 0
    /\ s_log = <<>>
    /\ reply = NoReply
    /\ api_key = "valid"
    /\ fs = <<>>
    /\ RunIdle
    /\ CombineIdle
    /\ ExtractIdle
    /\ AppIdle
    /\ PackIdle
    /\ MainIdle

\* generate(), up to the call of generate_code_from_json.  get_json() raises
\* a client error for a body that is not JSON; data.get raises
\* AttributeError when the JSON value is no object, and file_json.items()
\* does when json_data is no object: Flask answers an unhandled error with 500.
Receive ==
    /\ s_pc = "waiting"
    /\ IF body.kind = "notjson"
       THEN /\ reply' = Reply(400, "BadRequest", <<>>)
            /\ s_pc' = "replied"
            /\ UNCHANGED <<s_items, generated_files>>
       ELSE IF body.kind # "object"
       THEN /\ reply' = Reply(500, "AttributeError", <<>>)
            /\ s_pc' = "replied"
            /\ UNCHANGED <<s_items, generated_files>>
       ELSE IF Rejects(body.api_key, body.json_data)
       THEN /\ reply' = Reply(400, "Missing API key or json data", <<>>)
            /\ s_pc' = "replied"
            /\ UNCHANGED <<s_items, generated_files>>
       ELSE IF body.json_data.t # "obj"
       THEN /\ reply' = Reply(500, "AttributeError", <<>>)
            /\ s_pc' = "replied"
            /\ generated_files' = <<>>
            /\ UNCHANGED s_items
       ELSE /\ s_pc' = "generating"
            /\ s_items' = body.json_data.m
            /\ generated_files' = <<>>
            /\ UNCHANGED reply
    /\ UNCHANGED <<body, s_calls, s_log>>
    /\ UNCHANGED <<api_key, fs, runVars, combineVars, extractVars, appVars, packVars, mainVars>>

\* A loop that gives up at the first call that raises: the error is recorded
\* and the items left are dropped.
GenerateOneAborting ==
    /\ s_pc = "generating"
    /\ s_items # <<>>
    /\ \E o \in Stage2Outcomes(KeyOf(body.api_key)) :
         /\ generated_files' =
                DictSet(generated_files, Stem(Head(s_items)[1]),
                        IF o.err # "" THEN <<ErrorLine>> ELSE o.text)
         /\ s_items' = IF o.err # "" THEN <<>> ELSE Tail(s_items)
    /\ s_calls' = s_calls + 1
    /\ s_log' = Append(s_log, Head(s_items)[1])
    /\ UNCHANGED <<body, s_pc, reply>>
    /\ UNCHANGED <<api_key, fs, runVars, combineVars, extractVars, appVars, packVars, mainVars>>
\* One pass of the loop of generate_code_from_json: the call for one item,
\* and the entry recorded under the file's stem.
GenerateOne ==
    /\ s_pc = "generating"
    /\ s_items # <<>>
    /\ \E o \in Stage2Outcomes(KeyOf(body.api_key)) :
         generated_files' =
             DictSet(generated_files, Stem(Head(s_items)[1]),
                     IF o.err # "" THEN <<ErrorLine>> ELSE o.text)
    /\ s_calls' = s_calls + 1
    /\ s_log' = Append(s_log, Head(s_items)[1])
    /\ s_items' = Tail(s_items)
    /\ UNCHANGED <<body, s_pc, reply>>
    /\ UNCHANGED <<api_key, fs, runVars, combineVars, extractVars, appVars, packVars, mainVars>>

\* generate_code_from_json returns; return jsonify(result).
SendReply ==
    /\ s_pc = "generating"
    /\ s_items = <<>>
    /\ reply' = Reply(200, "", generated_files)
    /\ s_pc' = "replied"
    /\ UNCHANGED <<body, s_items, generated_files, s_calls, s_log>>
    /\ UNCHANGED <<api_key, fs, runVars, combineVars, extractVars, appVars, packVars, mainVars>>

NextServer == Receive \/ GenerateOne \/ SendReply

ServerSpec == InitServer /\ [][NextServer]_vars

\* ------------------------------------------- stage 1, App A (RefactorApp)
\* App A's FileProcessor.read_file_content: one open with encoding='utf-8';
\* every exception, the decoding error among them, gives None.
read_file_content_A(file) ==
    LET r == Decode(file, "utf-8") IN
    IF r.kind = "raise" THEN NoContent ELSE r

\* What the user has put into the page when the script is run again.
Uploads == {"none", "zip", "notzip"}
KeyInputs == {"", "valid", "invalid"}
Clicks == {"none", "generate", "send"}
UrlInputs == {"", "http://localhost:8001/generate"}

\* What the POST to App B comes to: a 200 reply, another status, or an
\* exception of the transport.
PostOutcomes == {"200", "500", "ConnectionError"}

InitApp ==
    /\ fs \in FileLists
    /\ api_key = "valid"
    /\ AppIdle
    /\ RunIdle
    /\ CombineIdle
    /\ ExtractIdle
    /\ ServerIdle
    /\ PackIdle
    /\ MainIdle

\* The test that opens the upload section: a file is in the uploader and
\* processing is not complete.
EntersUploadUngated(uploaded) == uploaded # "none"
EntersUpload(uploaded) == uploaded # "none" /\ ~processing_complete

\* What extract_zip returns for the uploaded file, as the run records it.
ExtractOutcome(uploaded) == IF uploaded = "zip" THEN "ok" ELSE "failed"

\* The upload section gets as far as the "Generate Documentation" button:
\* the section is entered, the archive extracts, Java files are found and a
\* key is entered.
ReachesButton(uploaded, key) ==
    /\ EntersUpload(uploaded)
    /\ uploaded = "zip"
    /\ fs # <<>>
    /\ key # ""

\* send_to_agent_b for a response that is taken for a success whatever its
\* status.
SendToAgentBUnchecked(key, outcome) ==
    /\ sent' = [api_key |-> key, json_data |-> documentation,
                complete |-> processing_complete]
    /\ post' = outcome
    /\ handoff' = IF outcome = "ConnectionError" THEN "None" ELSE "reply"
\* send_to_agent_b: the payload posted, and what the function returns.
\* complete notes whether the generation run had finished when it was posted.
SendToAgentB(key, outcome) ==
    /\ sent' = [api_key |-> key, json_data |-> documentation,
                complete |-> processing_complete]
    /\ post' = outcome
    /\ handoff' = IF outcome = "200" THEN "reply" ELSE "None"

\* One run of the script in which no documentation is generated: the upload
\* section (save_uploaded_file leaves its file on disk, the extraction
\* directory is made), the results, the send section, and the cleanup at the
\* end, which removes the directory of this run.
ScriptRun ==
    /\ a_pc = "idle"
    /\ \E uploaded \in Uploads, key \in KeyInputs, clicked \in Clicks,
          url \in UrlInputs :
         /\ clicked = "generate" => button_shown
         /\ ~(ReachesButton(uploaded, key) /\ clicked = "generate")
         /\ button_shown' = ReachesButton(uploaded, key)
         /\ a_extract' = IF EntersUpload(uploaded) THEN ExtractOutcome(uploaded)
                         ELSE "none"
         /\ a_zip_exists' = (a_zip_exists \/ EntersUpload(uploaded))
         /\ IF url # "" /\ clicked = "send"
            THEN \E outcome \in PostOutcomes : SendToAgentB(key, outcome)
            ELSE /\ post' = "NoPost"
                 /\ UNCHANGED <<sent, handoff>>
    /\ a_dir_exists' = FALSE
    /\ UNCHANGED <<documentation, processing_complete, a_pc, a_i, a_key, a_calls>>
    /\ UNCHANGED <<api_key, fs, runVars, combineVars, extractVars, serverVars, packVars,
                   mainVars>>

\* A run in which the "Generate Documentation" button was clicked: the upload
\* section saves and extracts the archive, and the script enters the
\* generation loop.
StartGeneration ==
    /\ a_pc = "idle"
    /\ button_shown
    /\ \E key \in KeyInputs :
         /\ ReachesButton("zip", key)
         /\ a_key' = key
    /\ a_pc' = "generating"
    /\ a_i' = 1
    /\ a_extract' = ExtractOutcome("zip")
    /\ a_zip_exists' = TRUE
    /\ a_dir_exists' = TRUE
    /\ post' = "NoPost"
    /\ UNCHANGED <<documentation, processing_complete, button_shown, sent, handoff,
                   a_calls>>
    /\ UNCHANGED <<api_key, fs, runVars, combineVars, extractVars, serverVars, packVars,
                   mainVars>>

\* One pass of the generation loop: the read, and for a content that is not
\* empty the call of generate_documentation, which gives the text of the
\* response or, for any exception, None.
GenerateDocumentation ==
    /\ a_pc = "generating"
    /\ a_i <= Len(fs)
    /\ IF Truthy(read_file_content_A(fs[a_i]))
       THEN /\ \E o \in CallOutcomes(a_key) :
                 documentation' =
                     DictSet(documentation, PathOf(a_i),
                             IF IsError(o) THEN None ELSE o)
            /\ a_calls' = a_calls + 1
       ELSE UNCHANGED <<documentation, a_calls>>
    /\ a_i' = a_i + 1
    /\ UNCHANGED <<processing_complete, a_pc, a_key, button_shown, sent, handoff,
                   post, a_extract, a_zip_exists, a_dir_exists>>
    /\ UNCHANGED <<api_key, fs, runVars, combineVars, extractVars, serverVars, packVars,
                   mainVars>>

\* The loop has ended: processing_complete = True, and the rest of the run
\* (the button was clicked, so nothing is sent), down to the cleanup.
FinishGeneration ==
    /\ a_pc = "generating"
    /\ a_i > Len(fs)
    /\ processing_complete' = TRUE
    /\ a_pc' = "idle"
    /\ a_dir_exists' = FALSE
    /\ UNCHANGED <<documentation, a_i, a_key, button_shown, sent, handoff, post,
                   a_extract, a_calls, a_zip_exists>>
    /\ UNCHANGED <<api_key, fs, runVars, combineVars, extractVars, serverVars, packVars,
                   mainVars>>

NextApp == ScriptRun \/ StartGeneration \/ GenerateDocumentation \/ FinishGeneration

AppSpec == InitApp /\ [][NextApp]_vars

\* ---------------------------------------------------------------- claims
\* The number of attempts the specification gives a request.
MAX_RETRIES == 3

\* The stub s fails on its first k invocations and succeeds on invocation k+1.
FailsThenSucceeds(s, k) ==
    /\ \A n \in 1..k : IsError(s[n])
    /\ ~IsError(s[k + 1])
AlwaysFails(s) == \A n \in DOMAIN s : IsError(s[n])
RequestDone == result # NoRequest

\* C1: when the remote call fails on its first k < MAX_RETRIES invocations
\* and succeeds on invocation k+1, _generate_docs returns the text of that
\* response and the remote call has been invoked exactly k+1 times.
C1_ReturnsFirstSuccess ==
    RequestDone =>
        \A k \in 0..(MAX_RETRIES - 1) :
            FailsThenSucceeds(stub, k) => result = stub[k + 1] /\ calls = k + 1

\* A request that failed twice and then succeeded has ended.
C1_Witness ==
    /\ RequestDone
    /\ FailsThenSucceeds(stub, 2)
    /\ result \in DocTexts
    /\ pc = "done"

\* C2: when the remote call fails on every invocation, _generate_docs ends
\* with None after exactly MAX_RETRIES invocations: no request makes a fourth
\* call, a failed request made no fewer than three, and every request ends.
C2_FailsAfterMaxRetries ==
    /\ [](calls <= MAX_RETRIES)
    /\ []((RequestDone /\ AlwaysFails(stub)) =>
              (result = None /\ calls = MAX_RETRIES))
    /\ [](pc = "generate" => <>RequestDone)

\* A request whose every call failed has ended.
C2_Witness ==
    /\ RequestDone
    /\ AlwaysFails(stub)
    /\ stub # <<>>
    /\ result = None
    /\ calls = MAX_RETRIES

\* The file can be read: read_file_content gives a text, not None.
Readable(file) == read_file_content_v3(file) # NoContent
FailedEntries(d) == { n \in 1..Len(d) : d[n][2] = None }

\* C3: over N readable units of which one unit's completion fails and the
\* others' succeed, the per-file run returns a mapping with exactly N entries,
\* one per unit in order, the failed unit's entry being None.
C3_PartialFailureKeepsAllEntries ==
    (/\ pc = "done"
     /\ \A j \in 1..Len(fs) : Readable(fs[j])
     /\ Cardinality(FailedEntries(docs)) = 1)
    => /\ Len(docs) = Len(fs)
       /\ \A j \in 1..Len(docs) : docs[j][1] = PathOf(j)

\* The size bound the specification gives the aggregate payload.
MAX_AGGREGATE_BYTES == 500000

\* C4: the string combine_file_contents returns, headers and separators
\* included, is at most MAX_AGGREGATE_BYTES long.
C4_PayloadWithinBound ==
    payload # NotCombined => TextLen(payload) <= MAX_AGGREGATE_BYTES

\* The renderings of the files that can be read, in input order.
RECURSIVE ReadableRenderings(_, _)
ReadableRenderings(files, j) ==
    IF j > Len(files) THEN <<>>
    ELSE IF Readable(files[j])
         THEN <<Render(PathOf(j), read_file_content_v3(files[j]))>>
              \o ReadableRenderings(files, j + 1)
         ELSE ReadableRenderings(files, j + 1)
IsUnit(segment) == segment # Newline
UnitsOf(segments) == SelectSeq(segments, IsUnit)

\* C5: the payload holds, whole, the renderings of the first m readable
\* units and nothing else of any unit: those m fit, and either every readable
\* unit is in or unit m+1 would push the running total over the bound.
C5_WholeUnitsPrefix ==
    payload # NotCombined =>
        LET R == ReadableRenderings(fs, 1) IN
        \E m \in 0..Len(R) :
            /\ UnitsOf(payload) = SubSeq(R, 1, m)
            /\ TextLen(SubSeq(R, 1, m)) <= MAX_AGGREGATE_BYTES
            /\ m < Len(R) =>
                   TextLen(SubSeq(R, 1, m)) + R[m + 1].len > MAX_AGGREGATE_BYTES

\* The text from line p on is prose and well-formed Java blocks: each block
\* opens with the java fence, closes with a bare fence, and its first
\* non-blank line holds a class declaration.
RECURSIVE WellFormedClassBlocks(_, _)
WellFormedClassBlocks(t, p) ==
    IF p > Len(t) THEN TRUE
    ELSE IF t[p] = FenceJava
         THEN LET closes == { n \in (p + 1)..Len(t) : HasFence(t[n]) } IN
              /\ closes # {}
              /\ t[Min(closes)] = Fence
              /\ Strip(SubSeq(t, p + 1, Min(closes) - 1)) # <<>>
              /\ ContainsClass(Strip(SubSeq(t, p + 1, Min(closes) - 1))[1])
              /\ WellFormedClassBlocks(t, Min(closes) + 1)
         ELSE ~HasFence(t[p]) /\ WellFormedClassBlocks(t, p + 1)

\* The token that follows the class keyword on a declaration line.
DeclaredName(line) ==
    Words(line)[(CHOOSE n \in 1..Len(Words(line)) : Words(line)[n] = "class") + 1]

\* The artifacts of a well-formed text, in document order, as the
\* specification names them.
RECURSIVE DeclaredArtifacts(_, _)
DeclaredArtifacts(t, p) ==
    IF p > Len(t) THEN <<>>
    ELSE IF t[p] = FenceJava
         THEN LET c == Min({ n \in (p + 1)..Len(t) : HasFence(t[n]) })
                  code == Strip(SubSeq(t, p + 1, c - 1))
              IN <<<<DeclaredName(code[1]), code>>>> \o DeclaredArtifacts(t, c + 1)
         ELSE DeclaredArtifacts(t, p + 1)

\* C7: for a text of well-formed java blocks that start with a class
\* declaration, extract_java_files returns one artifact per block, in
\* document order, named by the token that follows the class keyword.
C7_NamesAreDeclaredClassNames ==
    (artifacts # NotCalled /\ WellFormedClassBlocks(text, 1)) =>
        /\ artifacts.raised = ""
        /\ artifacts.files = DeclaredArtifacts(text, 1)

NoFence(t) == \A n \in 1..Len(t) : ~HasFence(t[n])
NothingExtracted == [raised |-> "", files |-> <<>>]

\* C8: for a text without a fenced block (the empty text and the "Error: ..."
\* text of a failed generation among them) extract_java_files returns the
\* empty sequence without raising, and save_to_zip completes with no entry
\* written for that group.
C8_NoBlocksNoArtifacts ==
    NoFence(text) =>
        /\ artifacts # NotCalled => artifacts = NothingExtracted
        /\ archive # NotCalled => archive = NothingExtracted

\* The error text of a failed generation has been extracted and packed.
C8_Witness ==
    /\ text = <<ErrorLine>>
    /\ artifacts = NothingExtracted
    /\ archive = NothingExtracted

\* A field of the request is absent, null or empty.
Missing(v) ==
    \/ v = JAbsent
    \/ v = JNull
    \/ v = JStr("")
    \/ v = JObj(<<>>)
    \/ v = JList(<<>>)

\* C6: a JSON object in which "api_key" or "json_data" is absent, null or
\* empty is answered with the 400 error, generate_code_from_json is never
\* entered and no completion call is made for it.
C6_MissingFieldRejected ==
    (body # NoBody /\ body.kind = "object"
     /\ (Missing(body.api_key) \/ Missing(body.json_data)))
    => /\ s_pc # "generating"
       /\ s_calls = 0
       /\ s_pc = "replied" =>
              reply = Reply(400, "Missing API key or json data", <<>>)

\* A request with documentation but no credential has been rejected.
C6_Witness ==
    /\ body # NoBody
    /\ body.kind = "object"
    /\ body.api_key = JAbsent
    /\ body.json_data.t = "obj"
    /\ body.json_data.m # <<>>
    /\ s_pc = "replied"
    /\ reply.status = 400

\* The file's bytes decode, as UTF-8 or through a single-byte fallback, to a
\* text that is not empty.
Decodable(file) == file.enc \in {"utf8", "bin"} /\ file.len > 0

\* C9: a file whose bytes are not valid UTF-8 is read and processed like any
\* other: when every file of the archive is decodable and every completion
\* made has succeeded, the finished run has one ok entry per file, and a
\* handoff payload posted after it holds as many entries.
C9_FallbackEncodingProcessed ==
    (/\ processing_complete
     /\ a_pc = "idle"
     /\ \A j \in 1..Len(fs) : Decodable(fs[j])
     /\ FailedEntries(documentation) = {})
    => /\ Len(documentation) = Len(fs)
       /\ sent.complete => Len(sent.json_data) = Len(fs)

\* C10: a request whose error is one of the request itself (a rejected
\* credential) fails at once: no second attempt and no backoff delay.
C10_MalformedFailsImmediately ==
    (stub # <<>> /\ stub[1] = "malformed") => (calls <= 1 /\ slept = <<>>)

\* The POST of the last run came back with a status other than 200, or the
\* transport raised.
FailedPost == post \in {"500", "ConnectionError"}

\* C11: when the handoff request gets a failing response or raises a
\* transport error, send_to_agent_b returns None (no reply mapping), and the
\* step leaves the documentation mapping and the completion flag as they
\* were: what was posted is still what the session holds, to be sent again or
\* exported.
C11_FailedHandoffKeepsDocumentation ==
    /\ [](FailedPost => (handoff = "None" /\ sent.json_data = documentation))
    /\ [][FailedPost' => (/\ documentation' = documentation
                          /\ processing_complete' = processing_complete)]_vars

\* The handoff of a finished run's documentation has failed.
C11_Witness ==
    /\ FailedPost
    /\ handoff = "None"
    /\ processing_complete
    /\ documentation # <<>>
    /\ sent.json_data = documentation

\* The group identity with its extension stripped and its spaces replaced.
SanitizedGroup(g) ==
    CASE g = <<"Order">> -> "Order"
      [] g = <<"Order", ".java">> -> "Order"
      [] g = <<"My", " ", "Order">> -> "My_Order"

\* The entries the artifacts of one group make, in document order.
RECURSIVE EntriesOf(_, _)
EntriesOf(g, arts) ==
    IF arts = <<>> THEN <<>>
    ELSE <<<<SanitizedGroup(g) \o "_" \o Head(arts)[1] \o ".java", Head(arts)[2]>>>>
         \o EntriesOf(g, Tail(arts))

\* The entries of a mapping, group after group in the mapping's order.
RECURSIVE ExpectedEntries(_)
ExpectedEntries(d) ==
    IF d = <<>> THEN <<>>
    ELSE EntriesOf(Head(d)[1], extract_java_files(Head(d)[2]).files)
         \o ExpectedEntries(Tail(d))

\* extract_java_files returns for every text of the mapping.
AllExtracted(d) == \A n \in 1..Len(d) : extract_java_files(d[n][2]).raised = ""

C13_TemporariesDeleted ==
    a_pc = "idle" => (~a_zip_exists /\ ~a_dir_exists)

\* The uploaded bytes are not a valid ZIP archive, or could not be saved.
NotValidZip == upload.kind \in {"notzip", "damaged", "unsaved"}

\* C14: when the uploaded bytes are not a valid ZIP archive (or the archive
\* file could not be saved), extract_zip reports failure with nothing
\* extracted into the working directory, and the run enumerates no files and
\* makes no completion request.
C14_InvalidArchiveExtractsNothing ==
    (NotValidZip /\ pc \notin {"main", "saved"}) =>
        /\ pc \in {"cleanup", "ended"}
        /\ workdir = <<>>
        /\ ~enumerated
        /\ stub = <<>>
        /\ calls = 0

\* C15: the terminal states of a run are absorbing.  Once processing_complete
\* is true it stays true, and no later step extracts an archive, enters the
\* generation loop or makes a completion call; a run whose extraction failed,
\* whose credential is missing or whose handoff failed is not in the
\* generation loop; and no unit is requested twice (App A's client makes one
\* call per request).
C15_TerminalStatesAbsorbing ==
    /\ [][processing_complete =>
            (/\ processing_complete'
             /\ a_calls' = a_calls
             /\ a_extract' = "none"
             /\ a_pc' = "idle")]_vars
    /\ [](a_pc = "generating" =>
            (a_extract = "ok" /\ a_key # "" /\ ~FailedPost /\ ~processing_complete))
    /\ [](a_calls <= Len(fs))

\* The script has run again after the generation was complete: it sent the
\* documentation and skipped the upload section.
C15_Witness ==
    /\ processing_complete
    /\ a_pc = "idle"
    /\ a_calls > 0
    /\ a_extract = "none"
    /\ post = "200"
    /\ sent.complete

\* Reading the text from line p on as Markdown (a java fence opens a block,
\* the next fence closes it): the line of the opening fence that is left
\* without a closing fence, or 0 when every block is closed.
RECURSIVE OpenAt(_, _)
OpenAt(t, p) ==
    LET opens == { n \in p..Len(t) : t[n] = FenceJava } IN
    IF opens = {} THEN 0
    ELSE LET o == Min(opens)
             closes == { n \in (o + 1)..Len(t) : HasFence(t[n]) }
         IN IF closes = {} THEN o ELSE OpenAt(t, Min(closes) + 1)
\* The lines after the unclosed opening fence, up to the end of the text.
UnclosedCode(t) == Strip(SubSeq(t, OpenAt(t, 1) + 1, Len(t)))

\* C16: when the text has an opening java fence with no closing fence before
\* the end of the text, extract_java_files still returns an artifact for that
\* block: its last artifact, whose code is the text from the opening fence to
\* the end of the text.
C16_UnclosedBlockExtracted ==
    (/\ artifacts # NotCalled
     /\ artifacts.raised = ""
     /\ OpenAt(text, 1) # 0
     /\ UnclosedCode(text) # <<>>)
    => /\ artifacts.files # <<>>
       /\ artifacts.files[Len(artifacts.files)][2] = UnclosedCode(text)

\* The text with the tag of every capitalised java fence in lower case.
Lowered(t) ==
    [n \in 1..Len(t) |-> IF t[n] = FenceJavaCap THEN FenceJava ELSE t[n]]

\* C17: the tag of a fenced block is recognised whatever its letter case: a
\* text whose blocks are tagged Java yields the artifacts of the same text
\* with the blocks tagged java.
C17_TagCaseInsensitive ==
    (artifacts # NotCalled /\ extract_java_files(Lowered(text)).raised = "")
    => artifacts = extract_java_files(Lowered(text))

\* The units the loop of process_codebase is through with: read, and either
\* skipped or their result recorded in docs.
Processed ==
    CASE pc \in {"loop", "generate"} -> i - 1
      [] pc = "done" -> Len(fs)
      [] OTHER -> 0

\* C18: in a per-file run over N units the progress event (c, N) is emitted
\* only after unit c has been processed and its result recorded; the counts
\* emitted never decrease, and the last event of a run is (N, N).
C18_ProgressAfterEachUnit ==
    /\ \A k \in 1..Len(progress) :
         progress[k][1] <= Processed /\ progress[k][2] = Len(fs)
    /\ \A k \in 1..(Len(progress) - 1) : progress[k][1] <= progress[k + 1][1]
    /\ (pc = "done" /\ fs # <<>>) =>
           (progress # <<>> /\ progress[Len(progress)] = <<Len(fs), Len(fs)>>)

\* The items of the request's json_data that stage 2 has processed so far.
ItemsDone == Len(body.json_data.m) - Len(s_items)

\* C19: the result mapping of generate_code_from_json has one entry per
\* processed request, in processing order, and no result overwrites another:
\* for an input of N distinct paths (two paths that share a stem in different
\* directories among them) it returns N entries.
C19_OneEntryPerRequest ==
    /\ s_pc = "generating" =>
           /\ Len(generated_files) = ItemsDone
           /\ \A n \in 1..Len(generated_files) :
                generated_files[n][1] = Stem(body.json_data.m[n][1])
    /\ (s_pc = "replied" /\ reply.status = 200) =>
           Len(reply.data) = Len(body.json_data.m)

\* The fixed delay between two attempts, in seconds.
BACKOFF_SECONDS == 2

\* C20: within one request the fixed delay is applied exactly once between
\* two consecutive attempts and nowhere else: none before the first attempt,
\* one after each failed attempt that another attempt follows, and a request
\* that has ended after a attempts, by success or by exhaustion, has slept
\* exactly a - 1 times.
C20_BackoffBetweenAttemptsOnly ==
    /\ \A k \in 1..Len(slept) : slept[k] = BACKOFF_SECONDS
    /\ calls = 0 => slept = <<>>
    /\ pc = "generate" => Len(slept) = calls
    /\ RequestDone => Len(slept) = calls - 1

\* A request has ended by exhaustion: three attempts, two delays.
C20_Witness ==
    /\ RequestDone
    /\ result = None
    /\ calls = MAX_RETRIES
    /\ slept = <<BACKOFF_SECONDS, BACKOFF_SECONDS>>

\* C21: App A issues a handoff request only after a generation run has
\* completed: never while no documentation has been generated, and never
\* without a credential.
C21_HandoffAfterGeneration ==
    sent # NotSent =>
        /\ sent.complete
        /\ sent.json_data # <<>>
        /\ sent.api_key # ""

\* C24: extract_java_files raises no exception for any text, a text with a
\* java block whose body is empty or blank among them: it always returns a
\* list of artifacts.
C24_ExtractNeverRaises ==
    artifacts # NotCalled => artifacts.raised = ""

\* C22: after a per-file run a failed result can be told apart from an ok
\* result (a failed request is recorded as None, which no completion returns, so the counts of
\* ok and failed results can be read off the mapping), and a run in which
\* some or all requests failed is not reported as a full success.
C22_FailureDistinguishable ==
    /\ None \notin DocTexts
    /\ \A n \in 1..Len(docs) : docs[n][2] \in DocTexts \cup {None}
    /\ (pc = "ended" /\ button \in {"basic", "detailed"} /\ reported = "success") =>
           FailedEntries(docs) = {}

\* C23: read_file_content never raises; a file that cannot be read or decoded
\* gives None, and the per-file run skips exactly that file (no request, no
\* entry) and goes on to process every remaining file: the finished run has
\* looked at every file and holds an entry for each file that was read, and
\* for no other.
C23_UnreadableFileSkipped ==
    /\ \A j \in 1..Len(fs) : read_file_content_v3(fs[j]).kind # "raise"
    /\ (pc = "done" /\ \E j \in 1..Len(fs) : ~Readable(fs[j])) =>
           /\ Len(progress) = Len(fs)
           /\ \A j \in 1..Len(fs) : Readable(fs[j]) <=> PathOf(j) \in Keys(docs)

\* C25: every value of the json_data mapping that App A posts to App B is a
\* documentation text that a successful completion produced: the None
\* recorded for a failed completion is not forwarded.
C25_OnlyDocumentationForwarded ==
    sent # NotSent =>
        \A n \in 1..Len(sent.json_data) : sent.json_data[n][2] \in DocTexts

\* C26: in a per-file run every file that read_file_content reads
\* successfully, a file whose content is the empty string among them, gets a
\* completion request and an entry in the result mapping: the finished run
\* holds an entry for each file read, and as many entries as files read.
C26_EveryReadFileRequested ==
    pc = "done" =>
        /\ \A j \in 1..Len(fs) : Readable(fs[j]) => PathOf(j) \in Keys(docs)
        /\ Len(docs) = Cardinality({ j \in 1..Len(fs) : Readable(fs[j]) })

\* C27: the archive entry names that save_to_zip writes are pairwise
\* distinct: two different artifacts, of one group or of two, never get the
\* same entry name.
C27_EntryNamesDistinct ==
    packed # NotCalled =>
        \A a, b \in 1..Len(packed.files) :
            a # b => packed.files[a][1] # packed.files[b][1]

\* The paths of the first n items of the request's json_data.
PathsOf(items, n) == [k \in 1..n |-> items[k][1]]

\* C28: generate_code_from_json makes exactly one completion call per entry
\* of the input mapping, in the mapping's order and one after the other; a
\* call that raises is absorbed into its entry's result ("Error: ...") and
\* the calls for the later entries are still made; the function returns a
\* mapping, which the receiver sends with status 200.
C28_OneCallPerEntry ==
    /\ s_pc = "generating" =>
           /\ s_calls = ItemsDone
           /\ s_log = PathsOf(body.json_data.m, ItemsDone)
           /\ generated_files # <<>> =>
                  Stem(s_log[Len(s_log)]) \in Keys(generated_files)
    /\ (s_pc = "replied" /\ s_calls > 0) =>
           /\ s_calls = Len(body.json_data.m)
           /\ s_log = PathsOf(body.json_data.m, Len(body.json_data.m))
           /\ reply = Reply(200, "", generated_files)
           /\ \A n \in 1..Len(s_log) : Stem(s_log[n]) \in Keys(reply.data)

\* A request of two entries has been answered, the call for the first entry
\* having raised.
C28_Witness ==
    /\ s_pc = "replied"
    /\ s_calls = 2
    /\ reply.status = 200
    /\ Len(reply.data) = 2
    /\ reply.data[1][2] = <<ErrorLine>>
    /\ reply.data[2][2] # <<ErrorLine>>

\* C29: the /generate receiver has two outcomes only. Either the payload is
\* valid and the reply is 200 with the mapping generate_code_from_json
\* returned, or the reply is the InvalidPayload client error (4xx). A body
\* that is missing, null or no JSON object is answered with the client
\* error: it never ends in an unhandled error (5xx) and never starts a
\* generation call.
C29_TwoOutcomesOnly ==
    s_pc = "replied" =>
        /\ \/ reply = Reply(200, "", generated_files)
           \/ reply.status \in 400..499
        /\ body.kind # "object" =>
               /\ reply.status \in 400..499
               /\ s_calls = 0
====
